---- MODULE Spec2Model ----
(***************************************************************************)
(* Order lifecycle and payment-state logic of the e-commerce backend       *)
(* (backend/server.py): order creation, provider transaction initiation,  *)
(* payment verification, COD / UPI confirmation and the administrator's   *)
(* status update, as requests running concurrently against the document   *)
(* store.                                                                  *)
(***************************************************************************)
EXTENDS Integers, Sequences, FiniteSets, TLC

(***************************************************************************)
(* Python floats.  CartItem.price and Order.total_amount are `float`, that *)
(* is IEEE-754 binary64, and create_order / create_razorpay_order do their *)
(* arithmetic on them.  A binary64 value is modelled exactly, as a sign    *)
(* and a magnitude counted in units of 2^-64: every amount of the model    *)
(* (a multiple of 0.01 of at least 0.01, its integer multiples and their   *)
(* sums) is a whole number of such units.  The magnitude is a natural      *)
(* number of any size, held as a little-endian sequence of 16-bit limbs    *)
(* with no leading zero limb; a float is a magnitude of at most 53         *)
(* significant bits.  The amounts stay far from the subnormal and overflow *)
(* ranges.                                                                 *)
(***************************************************************************)

\* Width of the binary64 significand (Python float).
MantissaBits == 53

Base == 2 ^ 16

\* Limbs of a natural number that fits a machine word.
RECURSIVE NatLimbs(_)
NatLimbs(n) == IF n = 0 THEN <<>> ELSE <<n % Base>> \o NatLimbs(n \div Base)

\* The natural number a short limb string denotes.
RECURSIVE LimbsNat(_)
LimbsNat(a) == IF a = <<>> THEN 0 ELSE a[1] + Base * LimbsNat(Tail(a))

Limb(a, i) == IF i \in 1..Len(a) THEN a[i] ELSE 0

\* Drop the leading (most significant) zero limbs.
RECURSIVE Strip(_)
Strip(a) ==
    IF a = <<>> \/ a[Len(a)] # 0 THEN a ELSE Strip(SubSeq(a, 1, Len(a) - 1))

RECURSIVE AddC(_, _, _, _)
AddC(a, b, i, c) ==
    IF i > Len(a) /\ i > Len(b)
    THEN IF c = 0 THEN <<>> ELSE <<c>>
    ELSE LET t == Limb(a, i) + Limb(b, i) + c
         IN  <<t % Base>> \o AddC(a, b, i + 1, t \div Base)

\* a + b.
BAdd(a, b) == AddC(a, b, 1, 0)

RECURSIVE SubC(_, _, _, _)
SubC(a, b, i, c) ==
    IF i > Len(a) THEN <<>>
    ELSE LET t == Limb(a, i) - Limb(b, i) - c
         IN  <<t % Base>> \o SubC(a, b, i + 1, IF t < 0 THEN 1 ELSE 0)

\* a - b, for a >= b.
BSub(a, b) == Strip(SubC(a, b, 1, 0))

\* a < b.
BLess(a, b) ==
    IF Len(a) # Len(b) THEN Len(a) < Len(b)
    ELSE \E i \in 1..Len(a) :
            /\ a[i] < b[i]
            /\ \A j \in (i + 1)..Len(a) : a[j] = b[j]

RECURSIVE MulC(_, _, _, _)
MulC(a, n, i, c) ==
    IF i > Len(a) THEN NatLimbs(c)
    ELSE LET t == a[i] * n + c
         IN  <<t % Base>> \o MulC(a, n, i + 1, t \div Base)

\* a * n, n a small natural number.
BMulSmall(a, n) == Strip(MulC(a, n, 1, 0))

\* Long division of a by the small number n from the most significant limb
\* down, entered with the remainder r of the limbs above i.
RECURSIVE DivC(_, _, _, _)
DivC(a, n, i, r) ==
    IF i = 0 THEN [quot |-> <<>>, rem |-> r]
    ELSE LET t    == r * Base + a[i]
             rest == DivC(a, n, i - 1, t % n)
         IN  [quot |-> rest.quot \o <<t \div n>>, rem |-> rest.rem]

\* floor(a / n) and a mod n.
BDivSmall(a, n) ==
    LET d == DivC(a, n, Len(a), 0) IN [quot |-> Strip(d.quot), rem |-> d.rem]

\* Number of significant bits of a limb, and of a magnitude.
LimbBits(x) == Cardinality({k \in 0..15 : 2 ^ k <= x})

BitLen(a) == IF a = <<>> THEN 0 ELSE 16 * (Len(a) - 1) + LimbBits(a[Len(a)])

\* Bit k of a (bit 0 is the least significant).
BitAt(a, k) == (Limb(a, (k \div 16) + 1) \div (2 ^ (k % 16))) % 2

\* a with its d lowest bits cleared.
ClearLow(a, d) ==
    [i \in 1..Len(a) |->
        IF i <= d \div 16 THEN 0
        ELSE IF i = (d \div 16) + 1 THEN a[i] - (a[i] % (2 ^ (d % 16)))
        ELSE a[i]]

\* 2^d.
PowerOfTwo(d) == [i \in 1..((d \div 16) + 1) |->
                    IF i = (d \div 16) + 1 THEN 2 ^ (d % 16) ELSE 0]

FZero(neg) == [neg |-> neg, mag |-> <<>>]

IsZero(x) == x.mag = <<>>

\* The binary64 value nearest to (-1)^neg * (a [+ a fraction of a unit when
\* sticky]), ties to the even significand: the rounding every float
\* operation and every decimal-to-float conversion applies.
RoundNearestEven(neg, a, sticky) ==
    LET d == BitLen(a) - MantissaBits
    IN  IF d <= 0 THEN [neg |-> neg, mag |-> a]
        ELSE LET guard == BitAt(a, d - 1) = 1
                 rest  == sticky \/ \E k \in 0..(d - 2) : BitAt(a, k) = 1
                 odd   == BitAt(a, d) = 1
                 kept  == ClearLow(a, d)
             IN  [neg |-> neg,
                  mag |-> IF guard /\ (rest \/ odd)
                          THEN BAdd(kept, PowerOfTwo(d)) ELSE kept]

\* The float a JSON number with two decimals parses to: the binary64 value
\* nearest to cents / 100.
FromDecimal(cents) ==
    LET n == IF cents < 0 THEN -cents ELSE cents
        q == BDivSmall(<<0, 0, 0, 0>> \o NatLimbs(n), 100)
    IN  RoundNearestEven(cents < 0, q.quot, q.rem # 0)

\* float * int (item.price * item.quantity): the int converts exactly and
\* the exact product is rounded once.
FMulInt(x, q) ==
    LET aq == IF q < 0 THEN -q ELSE q
    IN  RoundNearestEven(x.neg # (q < 0), BMulSmall(x.mag, aq), FALSE)

\* float + float: the exact sum rounded once.
FAdd(x, y) ==
    IF IsZero(x) /\ IsZero(y) THEN FZero(x.neg /\ y.neg)
    ELSE IF x.neg = y.neg THEN RoundNearestEven(x.neg, BAdd(x.mag, y.mag), FALSE)
    ELSE IF x.mag = y.mag THEN FZero(FALSE)
    ELSE IF BLess(x.mag, y.mag)
    THEN RoundNearestEven(y.neg, BSub(y.mag, x.mag), FALSE)
    ELSE RoundNearestEven(x.neg, BSub(x.mag, y.mag), FALSE)

\* int(x): truncation toward zero.
FTrunc(x) ==
    LET n == IF Len(x.mag) <= 4 THEN 0
             ELSE LimbsNat(SubSeq(x.mag, 5, Len(x.mag)))
    IN  IF x.neg THEN -n ELSE n


(***************************************************************************)
(* The document store, the configuration and the requests in flight.       *)
(***************************************************************************)
VARIABLES
    orders,       \* db.orders: the order documents, in insertion order
    admin_users,  \* db.admin_users: the admin documents, in insertion order
    products,     \* db.products: the product documents, in insertion order
    calls,        \* the handlers suspended at an await, one per slot
    issued,       \* how many orders the payment provider has created
    key_secret,   \* RAZORPAY_KEY_SECRET of the environment, or None
    resp          \* the response the last step sent, if it sent one

vars == <<orders, admin_users, products, calls, issued, key_secret, resp>>

\* Python's None, for the optional string fields and the unset environment.
None == "None"

\* Bounds of the model: the orders created, the create_razorpay_order calls
\* in flight at once and the provider orders created while payments are
\* followed (Spec); the same while orders are placed (SpecCheckout), with
\* the line items of an order.
MaxOrders == 1
MaxCalls == 1
MaxProviderOrders == 1
MaxCheckoutCalls == 2
MaxCheckoutProviderOrders == 2
MaxItems == 2
\* The register_admin calls in flight at once, the admins registered and
\* the products of the catalog while the store is administered
\* (SpecAdmin).
MaxAdminCalls == 2
MaxAdmins == 2
MaxProducts == 1
\* The orders that lie side by side (SpecLedger).
MaxLedgerOrders == 2
\* The verify_payment and confirm_cod_order calls in flight at once
\* (SpecRace).
MaxRaceCalls == 2

\* Order ids a request can name: those create_order hands out and one more,
\* which never names an order.
OrderIds == 1..(MaxOrders + 1)

\* Prices a client can send, as JSON numbers in hundredths, and quantities.
\* CartItem puts no constraint on either.
Prices == {-500, 0, 10, 510, 19999}
Quantities == {-1, 0, 1, 3}
ProductIds == {"p1"}
PaymentMethods == {"razorpay", "cod", "upi_qr"}

CartItems ==
    [product_id : ProductIds, quantity : Quantities, price : Prices]

\* The line-item lists of at most n items.
ItemLists(n) == UNION {[1..k -> CartItems] : k \in 0..n}

\* The one line-item list of the orders whose payments are followed.
FewItemLists ==
    {<<[product_id |-> "p1", quantity |-> 1, price |-> 19999],
       [product_id |-> "p1", quantity |-> 3, price |-> 10]>>}

\* References the payment provider and the clients produce.
\* The id of the n-th order the provider creates: the provider never repeats
\* one.
ProviderOrderRef(n) ==
    <<"order_R1", "order_R2", "order_R3", "order_R4", "order_R5">>[n]
ProviderOrderRefs == {ProviderOrderRef(n) : n \in 1..MaxProviderOrders}
PaymentRefs == {"pay_A", "pay_B"}
TransactionRefs == {"", "utr1"}
RequestedStatuses ==
    {"placed", "confirmed", "shipped", "delivered", "cancelled", "refunded"}

Idle == [op |-> "idle"]

NoResponse == [op |-> "none", order_id |-> 0, code |-> 0, body |-> [x |-> 0]]

Response(op, id, code, body) ==
    [op |-> op, order_id |-> id, code |-> code, body |-> body]

\* raise HTTPException(status_code, detail)
HTTPException(op, id, code, detail) ==
    Response(op, id, code, [detail |-> detail])

(***************************************************************************)
(* The collection operations of the driver.                                *)
(***************************************************************************)

\* Index of the first document of coll whose field `id` is id, or 0.
FindOne(coll, id) ==
    IF \E i \in 1..Len(coll) : coll[i].id = id
    THEN CHOOSE i \in 1..Len(coll) :
            /\ coll[i].id = id
            /\ \A j \in 1..(i - 1) : coll[j].id # id
    ELSE 0

\* UpdateOne as it would be if the filter were dropped and every document
\* took the fields.
UpdateOne_every_document(coll, id, fields) ==
    [i \in 1..Len(coll) |->
        [f \in DOMAIN coll[i] |->
            IF f \in DOMAIN fields THEN fields[f] ELSE coll[i][f]]]

\* update_one({"id": id}, {"$set": fields}): the first matching document
\* takes the fields of the record `fields`; no document matching, nothing
\* changes (no upsert).
UpdateOne(coll, id, fields) ==
    LET i == FindOne(coll, id)
    IN  IF i = 0 THEN coll
        ELSE [coll EXCEPT ![i] =
                [f \in DOMAIN coll[i] |->
                    IF f \in DOMAIN fields THEN fields[f] ELSE coll[i][f]]]

InsertOne(coll, doc) == Append(coll, doc)

(***************************************************************************)
(* POST /orders                                                            *)
(***************************************************************************)

\* sum(item.price * item.quantity for item in items), accumulated from the
\* left; the int 0 it starts from (and returns for no item) becomes 0.0.
RECURSIVE SumFrom(_, _, _)
SumFrom(items, i, acc) ==
    IF i > Len(items) THEN acc
    ELSE SumFrom(items, i + 1,
                 FAdd(acc, FMulInt(FromDecimal(items[i].price),
                                   items[i].quantity)))

TotalAmount(items) == SumFrom(items, 1, FZero(FALSE))

\* NewOrder as it would be if a cash-on-delivery order were confirmed as it
\* is placed.
NewOrder_confirming_cod(id, items, method) ==
    [id                    |-> id,
     items                 |-> items,
     total_amount          |-> TotalAmount(items),
     payment_method        |-> method,
     payment_status        |-> IF method = "cod" THEN "cod" ELSE "pending",
     order_status          |-> IF method = "cod" THEN "confirmed" ELSE "placed",
     razorpay_order_id     |-> None,
     razorpay_payment_id   |-> None,
     transaction_reference |-> None]

\* Order(**order_data): the defaults of the Order model fill the rest.  The
\* customer's contact strings and created_at are copied as sent, decide
\* nothing, and are left out.  transaction_reference is no field of the
\* model: a document gets it from confirm_upi_payment only (None: absent).
NewOrder(id, items, method) ==
    [id                    |-> id,
     items                 |-> items,
     total_amount          |-> TotalAmount(items),
     payment_method        |-> method,
     payment_status        |-> "pending",
     order_status          |-> "placed",
     razorpay_order_id     |-> None,
     razorpay_payment_id   |-> None,
     transaction_reference |-> None]

\* NewId as it would be if every order were given the id of the first.
NewId_of_the_first ==
    IF orders = <<>> THEN Len(orders) + 1 ELSE orders[1].id

\* uuid4(): an id no order has.
NewId == Len(orders) + 1

create_order(items, method) ==
    /\ LET order_obj == NewOrder(NewId, items, method)
       IN  /\ orders' = InsertOne(orders, order_obj)
           /\ resp' = Response("create_order", order_obj.id, 200, order_obj)
    /\ UNCHANGED <<admin_users, calls, issued, key_secret, products>>


(***************************************************************************)
(* POST /payments/verify-payment                                           *)
(***************************************************************************)

\* The secret the server is configured with when it has one, and a key that
\* is not the server's.
KeySecret == "rzp_secret"
OtherKey == "other_key"

\* HMAC-SHA256 of "<order_id>|<payment_id>" under key, hex encoded: two
\* digests are equal exactly when key and message are.
Hmac(key, order_ref, payment_ref) ==
    [key |-> key, order_ref |-> order_ref, payment_ref |-> payment_ref]

\* The signatures a client can send: the provider's over any two references,
\* and a forgery.
Signatures ==
    {Hmac(KeySecret, o, p) : o \in ProviderOrderRefs, p \in PaymentRefs}
        \cup {Hmac(OtherKey, ProviderOrderRef(1), "pay_A")}

\* PaymentVerification
Payloads ==
    [razorpay_order_id   : ProviderOrderRefs,
     razorpay_payment_id : PaymentRefs,
     razorpay_signature  : Signatures,
     order_id            : OrderIds]

\* razorpay_client.utility.verify_payment_signature returns: the client
\* holds a secret and the HMAC of the two references under it is the
\* signature sent.  Otherwise it raises: SignatureVerificationError on a
\* mismatch; with no secret configured, TypeError (no bytes of None) or,
\* where the client keys the HMAC with str(None), a mismatch with every
\* signature made under a real key.
SignatureVerifies(p) ==
    /\ key_secret # None
    /\ Hmac(key_secret, p.razorpay_order_id, p.razorpay_payment_id)
         = p.razorpay_signature

\* verify_payment as it would be if a verified payment left order_status
\* alone.
verify_payment_without_confirmation(payment_data) ==
    /\ IF SignatureVerifies(payment_data)
       THEN /\ orders' = UpdateOne(orders, payment_data.order_id,
                            [payment_status      |-> "paid",
                             razorpay_payment_id |->
                                 payment_data.razorpay_payment_id])
            /\ resp' = Response("verify_payment", payment_data.order_id, 200,
                            [status |-> "success"])
       ELSE /\ orders' = UpdateOne(orders, payment_data.order_id,
                            [payment_status |-> "failed"])
            /\ resp' = HTTPException("verify_payment", payment_data.order_id,
                            400, "Payment verification failed")
    /\ UNCHANGED <<admin_users, calls, issued, key_secret, products>>

\* verify_payment as it would be if a failed verification also cancelled
\* the order.
verify_payment_cancelling_on_failure(payment_data) ==
    /\ IF SignatureVerifies(payment_data)
       THEN /\ orders' = UpdateOne(orders, payment_data.order_id,
                            [payment_status      |-> "paid",
                             order_status        |-> "confirmed",
                             razorpay_payment_id |->
                                 payment_data.razorpay_payment_id])
            /\ resp' = Response("verify_payment", payment_data.order_id, 200,
                            [status |-> "success"])
       ELSE /\ orders' = UpdateOne(orders, payment_data.order_id,
                            [payment_status |-> "failed",
                             order_status   |-> "cancelled"])
            /\ resp' = HTTPException("verify_payment", payment_data.order_id,
                            400, "Payment verification failed")
    /\ UNCHANGED <<admin_users, calls, issued, key_secret, products>>

\* verify_payment as it would be if it refused a payment reference the
\* order already records, as a replay.
verify_payment_refusing_replay(payment_data) ==
    /\ IF /\ SignatureVerifies(payment_data)
          /\ \A i \in 1..Len(orders) :
                orders[i].id = payment_data.order_id
                    => orders[i].razorpay_payment_id
                           # payment_data.razorpay_payment_id
       THEN /\ orders' = UpdateOne(orders, payment_data.order_id,
                            [payment_status      |-> "paid",
                             order_status        |-> "confirmed",
                             razorpay_payment_id |->
                                 payment_data.razorpay_payment_id])
            /\ resp' = Response("verify_payment", payment_data.order_id, 200,
                            [status |-> "success"])
       ELSE /\ orders' = UpdateOne(orders, payment_data.order_id,
                            [payment_status |-> "failed"])
            /\ resp' = HTTPException("verify_payment", payment_data.order_id,
                            400, "Payment verification failed")
    /\ UNCHANGED <<admin_users, calls, issued, key_secret, products>>

verify_payment(payment_data) ==
    /\ IF SignatureVerifies(payment_data)
       THEN /\ orders' = UpdateOne(orders, payment_data.order_id,
                            [payment_status      |-> "paid",
                             order_status        |-> "confirmed",
                             razorpay_payment_id |->
                                 payment_data.razorpay_payment_id])
            /\ resp' = Response("verify_payment", payment_data.order_id, 200,
                            [status |-> "success"])
       ELSE /\ orders' = UpdateOne(orders, payment_data.order_id,
                            [payment_status |-> "failed"])
            /\ resp' = HTTPException("verify_payment", payment_data.order_id,
                            400, "Payment verification failed")
    /\ UNCHANGED <<admin_users, calls, issued, key_secret, products>>

(***************************************************************************)
(* POST /payments/cod-confirmation                                         *)
(***************************************************************************)

\* The payment_status of a confirmed cash-on-delivery order (cod_confirmed):
\* the store holds it as "cod".
cod_confirmed == "cod"

\* confirm_cod_order as it would be if it marked the order paid.
confirm_cod_order_marking_paid(order_id) ==
    /\ orders' = UpdateOne(orders, order_id,
                    [payment_status |-> "paid", order_status |-> "confirmed"])
    /\ resp' = Response("confirm_cod_order", order_id, 200,
                    [status |-> "success"])
    /\ UNCHANGED <<admin_users, calls, issued, key_secret, products>>

\* confirm_cod_order as it would be if it confirmed only orders whose
\* payment is pending.
confirm_cod_order_pending_only(order_id) ==
    /\ orders' = IF \E i \in 1..Len(orders) :
                      orders[i].id = order_id
                          /\ orders[i].payment_status # "pending"
                 THEN orders
                 ELSE UpdateOne(orders, order_id,
                          [payment_status |-> cod_confirmed,
                           order_status   |-> "confirmed"])
    /\ resp' = Response("confirm_cod_order", order_id, 200,
                    [status |-> "success"])
    /\ UNCHANGED <<admin_users, calls, issued, key_secret, products>>

confirm_cod_order(order_id) ==
    /\ orders' = UpdateOne(orders, order_id,
                    [payment_status |-> cod_confirmed,
                     order_status   |-> "confirmed"])
    /\ resp' = Response("confirm_cod_order", order_id, 200,
                    [status |-> "success"])
    /\ UNCHANGED <<admin_users, calls, issued, key_secret, products>>

(***************************************************************************)
(* A handler whose awaits other requests can run between is a call: its    *)
(* first step takes a free slot, each later step resumes the call in its   *)
(* slot.                                                                   *)
(***************************************************************************)
FreeSlot(c) == calls[c] = Idle /\ \A d \in 1..(c - 1) : calls[d] # Idle

Suspend(c, call) == calls' = [calls EXCEPT ![c] = call]

Finish(c) == calls' = [calls EXCEPT ![c] = Idle]

(***************************************************************************)
(* POST /payments/create-razorpay-order                                    *)
(***************************************************************************)

\* int(order["total_amount"] * 100)
AmountInPaise(total_amount) == FTrunc(FMulInt(total_amount, 100))

\* create_razorpay_order_find as it would be if it went on to the provider
\* for an order it did not find, with an amount of 0.
create_razorpay_order_find_unchecked(c, order_id) ==
    /\ FreeSlot(c)
    /\ LET i == FindOne(orders, order_id)
       IN  /\ Suspend(c, [op              |-> "create_razorpay_order",
                          pc              |-> "create",
                          order_id        |-> order_id,
                          amount_in_paise |->
                              IF i = 0 THEN 0
                              ELSE AmountInPaise(orders[i].total_amount)])
           /\ resp' = NoResponse
    /\ UNCHANGED <<orders, admin_users, issued, key_secret, products>>

\* find_one; 404 when there is no such order.
create_razorpay_order_find(c, order_id) ==
    /\ FreeSlot(c)
    /\ LET i == FindOne(orders, order_id)
       IN  IF i = 0
           THEN /\ resp' = HTTPException("create_razorpay_order", order_id,
                                404, "Order not found")
                /\ UNCHANGED calls
           ELSE /\ Suspend(c, [op              |-> "create_razorpay_order",
                               pc              |-> "create",
                               order_id        |-> order_id,
                               amount_in_paise |->
                                   AmountInPaise(orders[i].total_amount)])
                /\ resp' = NoResponse
    /\ UNCHANGED <<orders, admin_users, issued, key_secret, products>>

\* create_razorpay_order_update as it would be if a new provider order put
\* the payment back to pending.
create_razorpay_order_update_resetting_payment(c) ==
    /\ calls[c].op = "create_razorpay_order" /\ calls[c].pc = "create"
    /\ key_secret # None
    /\ issued' = issued + 1
    /\ LET razorpay_order ==
               [id       |-> ProviderOrderRef(issued + 1),
                amount   |-> calls[c].amount_in_paise,
                currency |-> "INR"]
       IN  /\ orders' = UpdateOne(orders, calls[c].order_id,
                            [razorpay_order_id |-> razorpay_order.id,
                             payment_status    |-> "pending"])
           /\ Suspend(c, [op             |-> "create_razorpay_order",
                          pc             |-> "return",
                          order_id       |-> calls[c].order_id,
                          razorpay_order |-> razorpay_order])
    /\ resp' = NoResponse
    /\ UNCHANGED <<admin_users, key_secret, products>>

\* razorpay_client.order.create returns the provider's new order, whose id
\* update_one stores.
create_razorpay_order_update(c) ==
    /\ calls[c].op = "create_razorpay_order" /\ calls[c].pc = "create"
    /\ key_secret # None
    /\ issued' = issued + 1
    /\ LET razorpay_order ==
               [id       |-> ProviderOrderRef(issued + 1),
                amount   |-> calls[c].amount_in_paise,
                currency |-> "INR"]
       IN  /\ orders' = UpdateOne(orders, calls[c].order_id,
                            [razorpay_order_id |-> razorpay_order.id])
           /\ Suspend(c, [op             |-> "create_razorpay_order",
                          pc             |-> "return",
                          order_id       |-> calls[c].order_id,
                          razorpay_order |-> razorpay_order])
    /\ resp' = NoResponse
    /\ UNCHANGED <<admin_users, key_secret, products>>

\* razorpay_client.order.create raises (the provider unreachable, the
\* request refused, no credentials): nothing catches it, the request ends
\* in a 500.
create_razorpay_order_raise(c) ==
    /\ calls[c].op = "create_razorpay_order" /\ calls[c].pc = "create"
    /\ Finish(c)
    /\ resp' = HTTPException("create_razorpay_order", calls[c].order_id, 500,
                    "Internal Server Error")
    /\ UNCHANGED <<orders, admin_users, issued, key_secret, products>>

create_razorpay_order_return(c) ==
    /\ calls[c].op = "create_razorpay_order" /\ calls[c].pc = "return"
    /\ Finish(c)
    /\ resp' = Response("create_razorpay_order", calls[c].order_id, 200,
                    [razorpay_order_id |-> calls[c].razorpay_order.id,
                     amount            |-> calls[c].razorpay_order.amount,
                     currency          |-> calls[c].razorpay_order.currency])
    /\ UNCHANGED <<orders, admin_users, issued, key_secret, products>>

(***************************************************************************)
(* POST /payments/confirm-upi-payment                                      *)
(*                                                                         *)
(* find_one and update_one are taken in one step: no operation deletes an  *)
(* order or changes its id, so an order found is still there when the      *)
(* update reaches the store, and the handler does nothing in between.      *)
(***************************************************************************)
\* confirm_upi_payment as it would be if it confirmed only orders placed
\* with the upi_qr payment method, refusing the others.
confirm_upi_payment_of_upi_orders(order_id, transaction_ref) ==
    /\ IF FindOne(orders, order_id) = 0
       THEN /\ resp' = HTTPException("confirm_upi_payment", order_id, 404,
                            "Order not found")
            /\ UNCHANGED orders
       ELSE IF orders[FindOne(orders, order_id)].payment_method # "upi_qr"
       THEN /\ resp' = HTTPException("confirm_upi_payment", order_id, 400,
                            "Not a UPI order")
            /\ UNCHANGED orders
       ELSE /\ orders' = UpdateOne(orders, order_id,
                            [payment_status        |-> "paid",
                             order_status          |-> "confirmed",
                             transaction_reference |-> transaction_ref])
            /\ resp' = Response("confirm_upi_payment", order_id, 200,
                            [status |-> "success"])
    /\ UNCHANGED <<admin_users, calls, issued, key_secret, products>>

confirm_upi_payment(order_id, transaction_ref) ==
    /\ IF FindOne(orders, order_id) = 0
       THEN /\ resp' = HTTPException("confirm_upi_payment", order_id, 404,
                            "Order not found")
            /\ UNCHANGED orders
       ELSE /\ orders' = UpdateOne(orders, order_id,
                            [payment_status        |-> "paid",
                             order_status          |-> "confirmed",
                             transaction_reference |-> transaction_ref])
            /\ resp' = Response("confirm_upi_payment", order_id, 200,
                            [status |-> "success"])
    /\ UNCHANGED <<admin_users, calls, issued, key_secret, products>>

(***************************************************************************)
(* POST /admin/register                                                    *)
(***************************************************************************)
Usernames == {"admin", "ghost"}
Emails == {"admin@shop", "ghost@shop"}

HasUsername(username) ==
    \E i \in 1..Len(admin_users) : admin_users[i].username = username

HasEmail(email) ==
    \E i \in 1..Len(admin_users) : admin_users[i].email = email

register_admin_find_username(c, username, email) ==
    /\ FreeSlot(c)
    /\ IF HasUsername(username)
       THEN /\ resp' = HTTPException("register_admin", 0, 400,
                            "Admin username already exists")
            /\ UNCHANGED calls
       ELSE /\ Suspend(c, [op       |-> "register_admin",
                           pc       |-> "find_email",
                           username |-> username,
                           email    |-> email])
            /\ resp' = NoResponse
    /\ UNCHANGED <<orders, admin_users, issued, key_secret, products>>

register_admin_find_email(c) ==
    /\ calls[c].op = "register_admin" /\ calls[c].pc = "find_email"
    /\ IF HasEmail(calls[c].email)
       THEN /\ resp' = HTTPException("register_admin", 0, 400,
                            "Admin email already exists")
            /\ Finish(c)
       ELSE /\ Suspend(c, [calls[c] EXCEPT !.pc = "insert"])
            /\ resp' = NoResponse
    /\ UNCHANGED <<orders, admin_users, issued, key_secret, products>>

\* AdminUser(**admin_data): the password hash decides nothing here and is
\* left out.
register_admin_insert(c) ==
    /\ calls[c].op = "register_admin" /\ calls[c].pc = "insert"
    /\ admin_users' = InsertOne(admin_users,
                        [username |-> calls[c].username,
                         email    |-> calls[c].email])
    /\ Finish(c)
    /\ resp' = Response("register_admin", 0, 200, [status |-> "success"])
    /\ UNCHANGED <<orders, issued, key_secret, products>>

(***************************************************************************)
(* PUT /admin/orders/{order_id}/status, behind get_current_admin           *)
(***************************************************************************)

\* The key the server signs and checks its tokens with.
SECRET_KEY == "your-secret-key-here"

\* A bearer token: a JWT signed with `key` whose payload carries `sub` (None:
\* no such field), or something that is no JWT at all.
Jwt(key, sub) == [key |-> key, sub |-> sub]
NotAJwt == [key |-> None, sub |-> None]

\* A request with no Authorization header: HTTPBearer() has no credentials
\* to hand to get_current_admin.
NoCredentials == [key |-> "absent", sub |-> None]

\* The bearer tokens a request can carry, and what a request can come with.
BearerTokens == {Jwt(SECRET_KEY, u) : u \in Usernames \cup {None}} \cup {NotAJwt}
Credentials == BearerTokens \cup {NoCredentials}

\* jwt.decode succeeds on the tokens signed with SECRET_KEY.
\* get_current_admin returns an admin when the token decodes, names a
\* subject and an admin has that username; it raises 401 otherwise.
CurrentAdminFound(credentials) ==
    /\ credentials.key = SECRET_KEY
    /\ credentials.sub # None
    /\ HasUsername(credentials.sub)

\* What a request behind get_current_admin is rejected with, if it is.
\* Without a bearer token HTTPBearer rejects it before get_current_admin
\* runs, with 403 or 401 as the framework's version has it.
Unauthorized(credentials) ==
    IF credentials = NoCredentials
    THEN {[code |-> 403, detail |-> "Not authenticated"],
          [code |-> 401, detail |-> "Not authenticated"]}
    ELSE IF CurrentAdminFound(credentials) THEN {}
    ELSE IF credentials.key = SECRET_KEY /\ credentials.sub # None
    THEN {[code |-> 401, detail |-> "Admin user not found"]}
    ELSE {[code |-> 401, detail |-> "Invalid authentication credentials"]}

\* update_order_status as it would be if a delivered order could no longer
\* change status.
update_order_status_keeping_delivered(order_id, status, credentials) ==
    /\ IF ~CurrentAdminFound(credentials)
       THEN /\ \E e \in Unauthorized(credentials) :
                    resp' = HTTPException("update_order_status", order_id,
                                e.code, e.detail)
            /\ UNCHANGED orders
       ELSE IF \E i \in 1..Len(orders) :
                   orders[i].id = order_id
                       /\ orders[i].order_status = "delivered"
            THEN /\ resp' = HTTPException("update_order_status", order_id,
                                400, "Order already delivered")
                 /\ UNCHANGED orders
            ELSE /\ orders' = UpdateOne(orders, order_id,
                                 [order_status |-> status])
                 /\ resp' = IF FindOne(orders, order_id) = 0
                            THEN HTTPException("update_order_status",
                                     order_id, 404, "Order not found")
                            ELSE Response("update_order_status", order_id,
                                     200, [status |-> "success"])
    /\ UNCHANGED <<admin_users, calls, issued, key_secret, products>>

\* update_order_status as it would be if cancelling an order also zeroed
\* its total.
update_order_status_zeroing_cancelled(order_id, status, credentials) ==
    /\ IF ~CurrentAdminFound(credentials)
       THEN /\ \E e \in Unauthorized(credentials) :
                    resp' = HTTPException("update_order_status", order_id,
                                e.code, e.detail)
            /\ UNCHANGED orders
       ELSE /\ orders' = UpdateOne(orders, order_id,
                            IF status = "cancelled"
                            THEN [order_status |-> status,
                                  total_amount |-> FZero(FALSE)]
                            ELSE [order_status |-> status])
            /\ resp' = IF FindOne(orders, order_id) = 0
                       THEN HTTPException("update_order_status", order_id,
                                404, "Order not found")
                       ELSE Response("update_order_status", order_id, 200,
                                [status |-> "success"])
    /\ UNCHANGED <<admin_users, calls, issued, key_secret, products>>

\* The dependency and the handler are taken in one step: no operation
\* removes an admin, so the admin found is still one when update_one runs.
\* update_one, then 404 when result.matched_count is 0.
update_order_status(order_id, status, credentials) ==
    /\ IF ~CurrentAdminFound(credentials)
       THEN /\ \E e \in Unauthorized(credentials) :
                    resp' = HTTPException("update_order_status", order_id,
                                e.code, e.detail)
            /\ UNCHANGED orders
       ELSE /\ orders' = UpdateOne(orders, order_id, [order_status |-> status])
            /\ resp' = IF FindOne(orders, order_id) = 0
                       THEN HTTPException("update_order_status", order_id,
                                404, "Order not found")
                       ELSE Response("update_order_status", order_id, 200,
                                [status |-> "success"])
    /\ UNCHANGED <<admin_users, calls, issued, key_secret, products>>

(***************************************************************************)
(* verify_payment and confirm_cod_order as calls.  Each handler reads      *)
(* nothing of the store and awaits once, on its update_one: the request    *)
(* arrives and issues the update, the store applies it, the handler        *)
(* resumes and answers.  Requests that run concurrently interleave these   *)
(* steps.                                                                  *)
(***************************************************************************)

\* The signature is checked as the request arrives; the update the handler
\* issues is that of the try branch or that of the except branch.
verify_payment_call(c, payment_data) ==
    /\ FreeSlot(c)
    /\ Suspend(c, [op           |-> "verify_payment",
                   pc           |-> "update",
                   payment_data |-> payment_data,
                   verified     |-> SignatureVerifies(payment_data)])
    /\ resp' = NoResponse
    /\ UNCHANGED <<orders, admin_users, issued, key_secret, products>>

\* verify_payment_update as it would be if the update of a verified payment
\* were refused, and the payment failed, on an order already paid.
verify_payment_update_failing_paid(c) ==
    /\ calls[c].op = "verify_payment" /\ calls[c].pc = "update"
    /\ orders' =
         IF /\ calls[c].verified
            /\ \A i \in 1..Len(orders) :
                  orders[i].id = calls[c].payment_data.order_id
                      => orders[i].payment_status # "paid"
         THEN UpdateOne(orders, calls[c].payment_data.order_id,
                  [payment_status      |-> "paid",
                   order_status        |-> "confirmed",
                   razorpay_payment_id |->
                       calls[c].payment_data.razorpay_payment_id])
         ELSE UpdateOne(orders, calls[c].payment_data.order_id,
                  [payment_status |-> "failed"])
    /\ Suspend(c, [op           |-> "verify_payment",
                   pc           |-> "return",
                   payment_data |-> calls[c].payment_data,
                   verified     |-> calls[c].verified,
                   matched      |->
                       FindOne(orders, calls[c].payment_data.order_id) # 0])
    /\ resp' = NoResponse
    /\ UNCHANGED <<admin_users, issued, key_secret, products>>

\* The store applies the update; the handler is handed its result, which
\* tells whether a document matched, and does not look at it.
verify_payment_update(c) ==
    /\ calls[c].op = "verify_payment" /\ calls[c].pc = "update"
    /\ orders' =
         IF calls[c].verified
         THEN UpdateOne(orders, calls[c].payment_data.order_id,
                  [payment_status      |-> "paid",
                   order_status        |-> "confirmed",
                   razorpay_payment_id |->
                       calls[c].payment_data.razorpay_payment_id])
         ELSE UpdateOne(orders, calls[c].payment_data.order_id,
                  [payment_status |-> "failed"])
    /\ Suspend(c, [op           |-> "verify_payment",
                   pc           |-> "return",
                   payment_data |-> calls[c].payment_data,
                   verified     |-> calls[c].verified,
                   matched      |->
                       FindOne(orders, calls[c].payment_data.order_id) # 0])
    /\ resp' = NoResponse
    /\ UNCHANGED <<admin_users, issued, key_secret, products>>

verify_payment_return(c) ==
    /\ calls[c].op = "verify_payment" /\ calls[c].pc = "return"
    /\ Finish(c)
    /\ resp' = IF calls[c].verified
               THEN Response("verify_payment",
                        calls[c].payment_data.order_id, 200,
                        [status |-> "success"])
               ELSE HTTPException("verify_payment",
                        calls[c].payment_data.order_id, 400,
                        "Payment verification failed")
    /\ UNCHANGED <<orders, admin_users, issued, key_secret, products>>

confirm_cod_order_call(c, order_id) ==
    /\ FreeSlot(c)
    /\ Suspend(c, [op       |-> "confirm_cod_order",
                   pc       |-> "update",
                   order_id |-> order_id])
    /\ resp' = NoResponse
    /\ UNCHANGED <<orders, admin_users, issued, key_secret, products>>

\* confirm_cod_order_update as it would be if the update were conditional
\* on the order not being paid.
confirm_cod_order_update_unless_paid(c) ==
    /\ calls[c].op = "confirm_cod_order" /\ calls[c].pc = "update"
    /\ orders' = IF \E i \in 1..Len(orders) :
                      orders[i].id = calls[c].order_id
                          /\ orders[i].payment_status = "paid"
                 THEN orders
                 ELSE UpdateOne(orders, calls[c].order_id,
                          [payment_status |-> cod_confirmed,
                           order_status   |-> "confirmed"])
    /\ Suspend(c, [calls[c] EXCEPT !.pc = "return"])
    /\ resp' = NoResponse
    /\ UNCHANGED <<admin_users, issued, key_secret, products>>

confirm_cod_order_update(c) ==
    /\ calls[c].op = "confirm_cod_order" /\ calls[c].pc = "update"
    /\ orders' = UpdateOne(orders, calls[c].order_id,
                    [payment_status |-> cod_confirmed,
                     order_status   |-> "confirmed"])
    /\ Suspend(c, [calls[c] EXCEPT !.pc = "return"])
    /\ resp' = NoResponse
    /\ UNCHANGED <<admin_users, issued, key_secret, products>>

confirm_cod_order_return(c) ==
    /\ calls[c].op = "confirm_cod_order" /\ calls[c].pc = "return"
    /\ Finish(c)
    /\ resp' = Response("confirm_cod_order", calls[c].order_id, 200,
                    [status |-> "success"])
    /\ UNCHANGED <<orders, admin_users, issued, key_secret, products>>

(***************************************************************************)
(* The catalog and the order list of the administrators, behind            *)
(* get_current_admin.  As for update_order_status the dependency and the   *)
(* handler are taken in one step.                                          *)
(***************************************************************************)

\* ProductCreate bodies: one that validates, and one that lacks the
\* required name.
ProductPayloads == {[name |-> "mug"], [name |-> None]}

\* Product(**product.dict()); price, stock and the descriptive strings
\* decide nothing and are left out.
NewProduct(id, product) == [id |-> id, name |-> product.name]

\* uuid4(): an id no product has.
NewProductId ==
    IF products = <<>> THEN 1 ELSE products[Len(products)].id + 1

\* delete_one({"id": id}): the first matching document goes.
DeleteOne(coll, id) ==
    LET i == FindOne(coll, id)
    IN  IF i = 0 THEN coll
        ELSE SubSeq(coll, 1, i - 1) \o SubSeq(coll, i + 1, Len(coll))

\* POST /admin/products.  The dependency is solved before the body is
\* validated, so a request that is not an admin's is rejected whatever its
\* body; an admin's invalid body is a 422.
create_product(product, credentials) ==
    /\ IF Unauthorized(credentials) # {}
       THEN /\ \E e \in Unauthorized(credentials) :
                    resp' = HTTPException("create_product", 0, e.code,
                                e.detail)
            /\ UNCHANGED products
       ELSE IF product.name = None
       THEN /\ resp' = HTTPException("create_product", 0, 422,
                            "field required")
            /\ UNCHANGED products
       ELSE LET product_obj == NewProduct(NewProductId, product)
            IN  /\ products' = InsertOne(products, product_obj)
                /\ resp' = Response("create_product", product_obj.id, 200,
                                product_obj)
    /\ UNCHANGED <<orders, admin_users, calls, issued, key_secret>>

\* delete_product as it would be if it looked at the token only after
\* deleting.
delete_product_before_the_token(product_id, credentials) ==
    /\ products' = DeleteOne(products, product_id)
    /\ IF Unauthorized(credentials) # {}
       THEN \E e \in Unauthorized(credentials) :
                resp' = HTTPException("delete_product", product_id, e.code,
                            e.detail)
       ELSE resp' = IF FindOne(products, product_id) = 0
                    THEN HTTPException("delete_product", product_id, 404,
                             "Product not found")
                    ELSE Response("delete_product", product_id, 200,
                             [status |-> "success"])
    /\ UNCHANGED <<orders, admin_users, calls, issued, key_secret>>

\* DELETE /admin/products/{product_id}: delete_one, then 404 when
\* result.deleted_count is 0.
delete_product(product_id, credentials) ==
    /\ IF Unauthorized(credentials) # {}
       THEN /\ \E e \in Unauthorized(credentials) :
                    resp' = HTTPException("delete_product", product_id,
                                e.code, e.detail)
            /\ UNCHANGED products
       ELSE /\ products' = DeleteOne(products, product_id)
            /\ resp' = IF FindOne(products, product_id) = 0
                       THEN HTTPException("delete_product", product_id, 404,
                                "Product not found")
                       ELSE Response("delete_product", product_id, 200,
                                [status |-> "success"])
    /\ UNCHANGED <<orders, admin_users, calls, issued, key_secret>>

\* sort("created_at", -1): created_at is the time of creation, so the
\* latest inserted comes first.
RECURSIVE Reverse(_)
Reverse(seq) ==
    IF seq = <<>> THEN <<>> ELSE Reverse(Tail(seq)) \o <<Head(seq)>>

\* GET /admin/orders
get_all_orders(credentials) ==
    /\ IF Unauthorized(credentials) # {}
       THEN \E e \in Unauthorized(credentials) :
                resp' = HTTPException("get_all_orders", 0, e.code, e.detail)
       ELSE resp' = Response("get_all_orders", 0, 200,
                        [orders |-> Reverse(orders)])
    /\ UNCHANGED <<orders, admin_users, products, calls, issued, key_secret>>

(***************************************************************************)
(* Payments: a store that holds one admin and no order, and any order or   *)
(* payment request at any time.                                            *)
(***************************************************************************)
TheAdmin == [username |-> "admin", email |-> "admin@shop"]

InitWith(slots) ==
    /\ orders = <<>>
    /\ admin_users = <<TheAdmin>>
    /\ products = <<>>
    /\ calls = [c \in 1..slots |-> Idle]
    /\ issued = 0
    /\ key_secret \in {KeySecret, None}
    /\ resp = NoResponse

Init == InitWith(MaxCalls)

Next ==
    \/ /\ Len(orders) < MaxOrders
       /\ \E items \in FewItemLists, m \in PaymentMethods :
            create_order(items, m)
    \/ \E p \in Payloads : verify_payment(p)
    \/ \E id \in OrderIds : confirm_cod_order(id)
    \/ \E id \in OrderIds, t \in TransactionRefs : confirm_upi_payment(id, t)
    \/ \E id \in OrderIds, s \in RequestedStatuses, k \in BearerTokens :
            update_order_status(id, s, k)
    \/ \E c \in 1..MaxCalls, id \in OrderIds : create_razorpay_order_find(c, id)
    \/ /\ issued < MaxProviderOrders
       /\ \E c \in 1..MaxCalls : create_razorpay_order_update(c)
    \/ \E c \in 1..MaxCalls : create_razorpay_order_raise(c)
    \/ \E c \in 1..MaxCalls : create_razorpay_order_return(c)

Spec == Init /\ [][Next]_vars

(***************************************************************************)
(* Checkout: orders of any line items are placed and their provider        *)
(* transactions initiated, by requests that run concurrently.              *)
(***************************************************************************)
InitCheckout == InitWith(MaxCheckoutCalls)

NextCheckout ==
    \/ /\ Len(orders) < MaxOrders
       /\ \E items \in ItemLists(MaxItems) : create_order(items, "razorpay")
    \/ \E c \in 1..MaxCheckoutCalls, id \in OrderIds :
            create_razorpay_order_find(c, id)
    \/ /\ issued < MaxCheckoutProviderOrders
       /\ \E c \in 1..MaxCheckoutCalls : create_razorpay_order_update(c)
    \/ \E c \in 1..MaxCheckoutCalls : create_razorpay_order_raise(c)
    \/ \E c \in 1..MaxCheckoutCalls : create_razorpay_order_return(c)

SpecCheckout == InitCheckout /\ [][NextCheckout]_vars

(***************************************************************************)
(* Races: payment verifications and cash-on-delivery confirmations that    *)
(* run concurrently.                                                       *)
(***************************************************************************)
InitRace == InitWith(MaxRaceCalls)

NextRace ==
    \/ /\ Len(orders) < MaxOrders
       /\ \E items \in FewItemLists, m \in {"razorpay", "cod"} :
            create_order(items, m)
    \/ \E c \in 1..MaxRaceCalls, p \in Payloads : verify_payment_call(c, p)
    \/ \E c \in 1..MaxRaceCalls : verify_payment_update(c)
    \/ \E c \in 1..MaxRaceCalls : verify_payment_return(c)
    \/ \E c \in 1..MaxRaceCalls, id \in OrderIds :
            confirm_cod_order_call(c, id)
    \/ \E c \in 1..MaxRaceCalls : confirm_cod_order_update(c)
    \/ \E c \in 1..MaxRaceCalls : confirm_cod_order_return(c)

SpecRace == InitRace /\ [][NextRace]_vars

(***************************************************************************)
(* Ledger: several orders side by side, and requests that name one of      *)
(* them, or none.                                                          *)
(***************************************************************************)
LedgerOrderIds == 1..(MaxLedgerOrders + 1)

\* PaymentVerification bodies naming any of the orders.
LedgerPayloads ==
    [razorpay_order_id   : ProviderOrderRefs,
     razorpay_payment_id : {"pay_A"},
     razorpay_signature  :
         {Hmac(KeySecret, o, "pay_A") : o \in ProviderOrderRefs}
             \cup {Hmac(OtherKey, ProviderOrderRef(1), "pay_A")},
     order_id            : LedgerOrderIds]

InitLedger ==
    /\ orders = <<>>
    /\ admin_users = <<TheAdmin>>
    /\ products = <<>>
    /\ calls = [c \in 1..MaxCalls |-> Idle]
    /\ issued = 0
    /\ key_secret = KeySecret
    /\ resp = NoResponse

NextLedger ==
    \/ /\ Len(orders) < MaxLedgerOrders
       /\ \E items \in FewItemLists : create_order(items, "razorpay")
    \/ \E p \in LedgerPayloads : verify_payment(p)
    \/ \E id \in LedgerOrderIds : confirm_cod_order(id)
    \/ \E id \in LedgerOrderIds : confirm_upi_payment(id, "utr1")
    \/ \E id \in LedgerOrderIds, k \in {Jwt(SECRET_KEY, "admin"), NotAJwt} :
            update_order_status(id, "shipped", k)
    \/ \E c \in 1..MaxCalls, id \in LedgerOrderIds :
            create_razorpay_order_find(c, id)
    \/ /\ issued < MaxProviderOrders
       /\ \E c \in 1..MaxCalls : create_razorpay_order_update(c)
    \/ \E c \in 1..MaxCalls : create_razorpay_order_raise(c)
    \/ \E c \in 1..MaxCalls : create_razorpay_order_return(c)

SpecLedger == InitLedger /\ [][NextLedger]_vars

(***************************************************************************)
(* Administration: an empty store; administrators register, by requests    *)
(* that run concurrently, and any request comes to the admin-only          *)
(* endpoints, whoever sends it.                                            *)
(***************************************************************************)
InitAdmin ==
    /\ orders = <<>>
    /\ admin_users = <<>>
    /\ products = <<>>
    /\ calls = [c \in 1..MaxAdminCalls |-> Idle]
    /\ issued = 0
    /\ key_secret = KeySecret
    /\ resp = NoResponse

NextAdmin ==
    \/ \E c \in 1..MaxAdminCalls, u \in Usernames, e \in Emails :
            register_admin_find_username(c, u, e)
    \/ \E c \in 1..MaxAdminCalls : register_admin_find_email(c)
    \/ /\ Len(admin_users) < MaxAdmins
       /\ \E c \in 1..MaxAdminCalls : register_admin_insert(c)
    \/ /\ Len(orders) < MaxOrders
       /\ \E items \in FewItemLists : create_order(items, "cod")
    \/ \E id \in OrderIds, s \in {"shipped", "cancelled"},
          k \in Credentials :
            update_order_status(id, s, k)
    \/ /\ Len(products) < MaxProducts
       /\ \E p \in ProductPayloads, k \in Credentials : create_product(p, k)
    \/ \E id \in 1..MaxProducts, k \in Credentials : delete_product(id, k)
    \/ \E k \in Credentials : get_all_orders(k)

SpecAdmin == InitAdmin /\ [][NextAdmin]_vars


(***************************************************************************)
(* The claims.                                                             *)
(***************************************************************************)
Exists(id) == FindOne(orders, id) # 0

\* The order a request naming id reads and updates.
OrderOf(id) == orders[FindOne(orders, id)]

\* The documents of coll other than the i-th are the same in after.
OthersSame(coll, after, i) ==
    /\ Len(after) = Len(coll)
    /\ \A j \in 1..Len(coll) : j # i => after[j] = coll[j]

\* The exact amount of a list of line items, in hundredths.
RECURSIVE ExactHundredths(_)
ExactHundredths(items) ==
    IF items = <<>> THEN 0
    ELSE items[1].quantity * items[1].price + ExactHundredths(Tail(items))

\* Line items an order may be made of: at least one, each of a quantity of
\* at least 1 and a price of at least 0.
ValidItems(items) ==
    /\ items # <<>>
    /\ \A i \in 1..Len(items) : items[i].quantity >= 1 /\ items[i].price >= 0

\* C1: every order made of valid line items is persisted, and returned by
\* create_order, with a total_amount that is the exact decimal sum of
\* quantity * unit price (the float that decimal reads as).
C1_TotalIsExactSum ==
    /\ \A i \in 1..Len(orders) :
          ValidItems(orders[i].items) =>
              orders[i].total_amount
                  = FromDecimal(ExactHundredths(orders[i].items))
    /\ (resp.op = "create_order" /\ ValidItems(resp.body.items)) =>
          resp.body.total_amount
              = FromDecimal(ExactHundredths(resp.body.items))

\* C2: a verify_payment whose signature check succeeds, for an existing
\* order whose payment_status is pending, sets payment_status = paid,
\* order_status = confirmed and razorpay_payment_id = the payload's payment
\* reference in one update, changes nothing else, and answers success.
C2_VerifiedPaymentMarksPaid ==
    [][resp'.op = "verify_payment" => \A p \in Payloads :
          (/\ SignatureVerifies(p)
           /\ Exists(p.order_id)
           /\ OrderOf(p.order_id).payment_status = "pending"
           /\ verify_payment(p))
          => LET i == FindOne(orders, p.order_id)
             IN  /\ OthersSame(orders, orders', i)
                 /\ orders'[i] =
                      [orders[i] EXCEPT
                          !.payment_status = "paid",
                          !.order_status = "confirmed",
                          !.razorpay_payment_id = p.razorpay_payment_id]
                 /\ resp'.code = 200
                 /\ resp'.body.status = "success"]_vars

C2_Witness ==
    /\ resp.op = "verify_payment" /\ resp.code = 200
    /\ Exists(resp.order_id)
    /\ OrderOf(resp.order_id).payment_status = "paid"
    /\ OrderOf(resp.order_id).order_status = "confirmed"
    /\ OrderOf(resp.order_id).razorpay_payment_id \in PaymentRefs
    /\ OrderOf(resp.order_id).transaction_reference = None

\* C3: a verify_payment whose signature check fails, for an existing order,
\* sets payment_status = failed, leaves order_status and every other field
\* as they were, and fails the caller with a 400.
C3_FailedVerificationMarksFailed ==
    [][resp'.op = "verify_payment" => \A p \in Payloads :
          (/\ ~SignatureVerifies(p)
           /\ Exists(p.order_id)
           /\ verify_payment(p))
          => LET i == FindOne(orders, p.order_id)
             IN  /\ OthersSame(orders, orders', i)
                 /\ orders'[i] =
                      [orders[i] EXCEPT !.payment_status = "failed"]
                 /\ resp'.code = 400
                 /\ resp'.body.detail = "Payment verification failed"]_vars

C3_Witness ==
    /\ resp.op = "verify_payment" /\ resp.code = 400
    /\ Exists(resp.order_id)
    /\ OrderOf(resp.order_id).payment_status = "failed"
    /\ OrderOf(resp.order_id).order_status = "shipped"

\* C4: an order whose payment_status is paid stays paid through every later
\* verify_payment for it, whatever the signature.
C4_PaidStaysPaidOnVerify ==
    [][resp'.op = "verify_payment" => \A p \in Payloads :
          (/\ Exists(p.order_id)
           /\ OrderOf(p.order_id).payment_status = "paid"
           /\ verify_payment(p))
          => OrderOf(p.order_id)'.payment_status = "paid"]_vars

\* C5: a successful verify_payment repeated on the order its first call
\* left (paid, confirmed, the payload's payment reference recorded) leaves
\* every order as it is, and answers success again.
C5_RepeatedVerificationChangesNothing ==
    [][resp'.op = "verify_payment" => \A p \in Payloads :
          (/\ SignatureVerifies(p)
           /\ Exists(p.order_id)
           /\ OrderOf(p.order_id).payment_status = "paid"
           /\ OrderOf(p.order_id).order_status = "confirmed"
           /\ OrderOf(p.order_id).razorpay_payment_id = p.razorpay_payment_id
           /\ verify_payment(p))
          => orders' = orders /\ resp'.code = 200]_vars

C5_Witness ==
    /\ resp.op = "verify_payment" /\ resp.code = 200
    /\ Exists(resp.order_id)
    /\ OrderOf(resp.order_id).payment_status = "paid"
    /\ OrderOf(resp.order_id).order_status = "confirmed"
    /\ OrderOf(resp.order_id).razorpay_payment_id = "pay_B"
    /\ OrderOf(resp.order_id).razorpay_order_id = ProviderOrderRef(1)

\* C6: a verify_payment naming no order fails with not_found (404).
C6_VerifyUnknownOrderNotFound ==
    (resp.op = "verify_payment" /\ ~Exists(resp.order_id)) => resp.code = 404

\* C7: a confirm_cod_order naming no order fails with not_found (404).
C7_CodUnknownOrderNotFound ==
    (resp.op = "confirm_cod_order" /\ ~Exists(resp.order_id))
        => resp.code = 404

\* C8: no step takes an order whose payment_status is not pending back to
\* pending.
C8_NeverBackToPending ==
    [][\A i \in 1..Len(orders) :
          orders[i].payment_status # "pending"
              => /\ i <= Len(orders')
                 /\ orders'[i].payment_status # "pending"]_vars

C8_Witness ==
    /\ resp.op = "update_order_status" /\ resp.code = 200
    /\ Exists(resp.order_id)
    /\ OrderOf(resp.order_id).payment_status = "paid"
    /\ OrderOf(resp.order_id).razorpay_order_id # None

\* C9, as claimed: a failed order for which no provider transaction was
\* ever initiated (it holds no razorpay_order_id) does not become paid.
C9_FailedNeedsNewInitiation ==
    [][\A i \in 1..Len(orders) :
          (orders[i].payment_status = "failed"
              /\ orders[i].razorpay_order_id = None)
          => orders'[i].payment_status # "paid"]_vars

\* C9, amended: a failed order becomes paid only by a verify_payment for it
\* whose signature check succeeds or by a confirm_upi_payment for it.
C9_FailedBecomesPaidByVerifyOrUpi ==
    [][\A i \in 1..Len(orders) :
          (orders[i].payment_status = "failed"
              /\ orders'[i].payment_status = "paid")
          => \/ \E p \in Payloads :
                  /\ p.order_id = orders[i].id
                  /\ SignatureVerifies(p)
                  /\ verify_payment(p)
             \/ \E t \in TransactionRefs :
                  confirm_upi_payment(orders[i].id, t)]_vars

C9_Witness ==
    /\ resp.op = "verify_payment" /\ resp.code = 400
    /\ Exists(resp.order_id)
    /\ OrderOf(resp.order_id).payment_status = "failed"
    /\ OrderOf(resp.order_id).razorpay_order_id = None

\* C10: every persisted order has at least one line item, each of a
\* quantity of at least 1 and a price of at least 0; create_order answers
\* other line items with a validation error.
C10_OnlyValidItemsPersisted ==
    /\ \A i \in 1..Len(orders) : ValidItems(orders[i].items)
    /\ (resp.op = "create_order" /\ ~ValidItems(resp.body.items))
          => resp.code \in {400, 422}

\* C11: every create_order, whatever the payment method, adds one order to
\* the store with order_status = placed, payment_status = pending, no
\* razorpay_order_id and no razorpay_payment_id, changes no other order and
\* returns the order it stored.
C11_CreatedPlacedAndPending ==
    [][resp'.op = "create_order" =>
          /\ Len(orders') = Len(orders) + 1
          /\ SubSeq(orders', 1, Len(orders)) = orders
          /\ LET o == orders'[Len(orders')]
             IN  /\ o.payment_method \in PaymentMethods
                 /\ o.order_status = "placed"
                 /\ o.payment_status = "pending"
                 /\ o.razorpay_order_id = None
                 /\ o.razorpay_payment_id = None
                 /\ resp'.body = o]_vars

C11_Witness ==
    /\ resp.op = "create_order" /\ resp.code = 200
    /\ Exists(resp.order_id)
    /\ OrderOf(resp.order_id).payment_method = "cod"
    /\ OrderOf(resp.order_id).payment_status = "pending"
    /\ OrderOf(resp.order_id).order_status = "placed"

\* C12: no step changes the total_amount or the line items of an order the
\* store holds, and none removes an order.
C12_TotalAndItemsFrozen ==
    [][\A i \in 1..Len(orders) :
          /\ i <= Len(orders')
          /\ orders'[i].id = orders[i].id
          /\ orders'[i].total_amount = orders[i].total_amount
          /\ orders'[i].items = orders[i].items]_vars

\* An order every kind of operation has acted on.
C12_Witness ==
    \E i \in 1..Len(orders) :
        /\ orders[i].razorpay_order_id # None
        /\ orders[i].razorpay_payment_id # None
        /\ orders[i].transaction_reference # None
        /\ orders[i].payment_status = "cod"
        /\ orders[i].order_status = "cancelled"
        /\ orders[i].total_amount = TotalAmount(orders[i].items)

\* C13: when the provider call of create_razorpay_order fails for an
\* existing order, the request still succeeds, answering a placeholder
\* reference that is none of the provider's.
C13_ProviderFailureFallsBack ==
    [][\A c \in 1..MaxCalls :
          (/\ calls[c] # Idle
           /\ Exists(calls[c].order_id)
           /\ create_razorpay_order_raise(c))
          => /\ resp'.code = 200
             /\ resp'.body.razorpay_order_id
                    \notin {ProviderOrderRef(n) : n \in 1..5}]_vars

\* C14: a create_razorpay_order naming no order answers 404 at once: the
\* call goes no further (the provider is not reached) and no order changes.
C14_InitiationUnknownOrderNotFound ==
    [][\A c \in 1..MaxCalls, id \in OrderIds :
          (~Exists(id) /\ create_razorpay_order_find(c, id))
          => /\ resp'.op = "create_razorpay_order"
             /\ resp'.order_id = id
             /\ resp'.code = 404
             /\ calls' = calls
             /\ issued' = issued
             /\ orders' = orders]_vars

C14_Witness ==
    /\ resp.op = "create_razorpay_order" /\ resp.code = 404
    /\ ~Exists(resp.order_id)
    /\ Len(orders) = 1
    /\ \A c \in DOMAIN calls : calls[c] = Idle

\* round(x): the integer nearest to the float x.
NearestInteger(x) ==
    LET m == BAdd(x.mag, PowerOfTwo(63))
        n == IF Len(m) <= 4 THEN 0 ELSE LimbsNat(SubSeq(m, 5, Len(m)))
    IN  IF x.neg THEN -n ELSE n

\* C15: the amount a create_razorpay_order is about to request from the
\* provider is the order's total_amount times 100 rounded to the nearest
\* integer.
C15_AmountRoundedToNearest ==
    \A c \in DOMAIN calls :
        (/\ calls[c].op = "create_razorpay_order"
         /\ calls[c].pc = "create"
         /\ Exists(calls[c].order_id))
        => calls[c].amount_in_paise
             = NearestInteger(
                   FMulInt(OrderOf(calls[c].order_id).total_amount, 100))

\* C16: with no provider secret configured, every verify_payment for an
\* existing order, whatever its signature, answers success and marks the
\* order paid and confirmed.
C16_NoSecretVerifiesAnything ==
    [][resp'.op = "verify_payment" => \A p \in Payloads :
          (/\ key_secret = None
           /\ Exists(p.order_id)
           /\ verify_payment(p))
          => /\ resp'.code = 200
             /\ OrderOf(p.order_id)'.payment_status = "paid"
             /\ OrderOf(p.order_id)'.order_status = "confirmed"]_vars

\* C17: confirm_cod_order for an existing order sets payment_status to the
\* cash-on-delivery marker and order_status = confirmed whatever the order's
\* payment_status, order_status and payment_method are, and changes nothing
\* else.
C17_CodConfirmsUnconditionally ==
    [][resp'.op = "confirm_cod_order" => \A id \in OrderIds :
          (Exists(id) /\ confirm_cod_order(id))
          => LET i == FindOne(orders, id)
             IN  /\ OthersSame(orders, orders', i)
                 /\ orders'[i] =
                      [orders[i] EXCEPT !.payment_status = cod_confirmed,
                                        !.order_status = "confirmed"]]_vars

\* A razorpay order whose payment had been verified, confirmed as cash on
\* delivery.
C17_Witness ==
    /\ resp.op = "confirm_cod_order" /\ resp.code = 200
    /\ Exists(resp.order_id)
    /\ OrderOf(resp.order_id).payment_method = "razorpay"
    /\ OrderOf(resp.order_id).razorpay_payment_id # None
    /\ OrderOf(resp.order_id).payment_status = cod_confirmed
    /\ OrderOf(resp.order_id).order_status = "confirmed"

\* C18: an update_order_status by an authenticated administrator answers
\* 404 and changes nothing when no order has the id; otherwise it sets
\* order_status to the requested value, whatever the current one, and
\* changes no other field of any order.
C18_AdminOverwritesOrderStatus ==
    [][resp'.op = "update_order_status" =>
          \A id \in OrderIds, s \in RequestedStatuses, k \in Credentials :
              (/\ resp'.order_id = id
               /\ CurrentAdminFound(k)
               /\ update_order_status(id, s, k))
              => IF ~Exists(id)
                 THEN resp'.code = 404 /\ orders' = orders
                 ELSE LET i == FindOne(orders, id)
                      IN  /\ OthersSame(orders, orders', i)
                          /\ orders'[i] =
                               [orders[i] EXCEPT !.order_status = s]
                          /\ resp'.code = 200]_vars

\* A paid order, confirmed by its payment, put back to placed.
C18_Witness ==
    /\ resp.op = "update_order_status" /\ resp.code = 200
    /\ Exists(resp.order_id)
    /\ OrderOf(resp.order_id).order_status = "placed"
    /\ OrderOf(resp.order_id).payment_status = "paid"
    /\ OrderOf(resp.order_id).razorpay_payment_id # None

\* C19: every order's order_status is one of placed, confirmed, shipped,
\* delivered, cancelled.
C19_OrderStatusEnumerated ==
    \A i \in 1..Len(orders) :
        orders[i].order_status
            \in {"placed", "confirmed", "shipped", "delivered", "cancelled"}

\* C20: verify_payment, confirm_cod_order and confirm_upi_payment change an
\* order_status only from placed to confirmed; that of a shipped, delivered
\* or cancelled order they leave as it is.
C20_PaymentsOnlyConfirmPlaced ==
    [][resp'.op \in {"verify_payment", "confirm_cod_order",
                     "confirm_upi_payment"} =>
          \A i \in 1..Len(orders) :
              /\ orders[i].order_status
                     \in {"shipped", "delivered", "cancelled"}
                 => orders'[i].order_status = orders[i].order_status
              /\ orders'[i].order_status # orders[i].order_status
                 => /\ orders[i].order_status = "placed"
                    /\ orders'[i].order_status = "confirmed"]_vars

\* C21: every order whose payment_status is paid has a razorpay_payment_id
\* recorded.
C21_PaidHasPaymentReference ==
    \A i \in 1..Len(orders) :
        orders[i].payment_status = "paid"
            => orders[i].razorpay_payment_id # None

\* A request to an admin-only endpoint that comes with credentials k and is
\* answered by resp'.
AdminOnlyRequest(k) ==
    \/ /\ resp'.op = "update_order_status"
       /\ \E s \in RequestedStatuses :
             update_order_status(resp'.order_id, s, k)
    \/ /\ resp'.op = "create_product"
       /\ \E p \in ProductPayloads : create_product(p, k)
    \/ /\ resp'.op = "delete_product"
       /\ delete_product(resp'.order_id, k)
    \/ /\ resp'.op = "get_all_orders"
       /\ get_all_orders(k)

C27_AdminsUnique ==
    /\ \A i, j \in 1..Len(admin_users) :
          i # j => /\ admin_users[i].username # admin_users[j].username
                   /\ admin_users[i].email # admin_users[j].email
    /\ resp.op = "register_admin" => resp.code \in {200, 400}

\* The call in slot c is a verify_payment, or a confirm_cod_order, whose
\* update the store is about to apply.
VerifyUpdating(c) ==
    calls[c].op = "verify_payment" /\ calls[c].pc = "update"

CodUpdating(c) ==
    calls[c].op = "confirm_cod_order" /\ calls[c].pc = "update"

\* C23: of a verify_payment with a valid signature and a confirm_cod_order
\* that run concurrently on an order, each changes the order by its one
\* update and at no other step, and each update leaves the payment_status
\* it writes (paid, the cash-on-delivery marker) and order_status =
\* confirmed, whatever the other has done: the last applied decides.
C23_LastUpdateWins ==
    [][\A c \in 1..MaxRaceCalls :
          /\ (/\ VerifyUpdating(c)
              /\ calls[c].verified
              /\ Exists(calls[c].payment_data.order_id)
              /\ verify_payment_update(c))
             => LET o == OrderOf(calls[c].payment_data.order_id)'
                IN  o.payment_status = "paid" /\ o.order_status = "confirmed"
          /\ (/\ CodUpdating(c)
              /\ Exists(calls[c].order_id)
              /\ confirm_cod_order_update(c))
             => LET o == OrderOf(calls[c].order_id)'
                IN  /\ o.payment_status = cod_confirmed
                    /\ o.order_status = "confirmed"
          /\ (~VerifyUpdating(c) /\ ~CodUpdating(c) /\ calls'[c] # calls[c])
             => orders' = orders]_vars

\* Both have run on one order, the verification first.
C23_Witness ==
    \E c, d \in DOMAIN calls :
        /\ calls[c].op = "verify_payment" /\ calls[c].pc = "return"
        /\ calls[c].verified
        /\ calls[d].op = "confirm_cod_order" /\ calls[d].pc = "return"
        /\ calls[d].order_id = calls[c].payment_data.order_id
        /\ Exists(calls[d].order_id)
        /\ OrderOf(calls[d].order_id).payment_status = cod_confirmed
        /\ OrderOf(calls[d].order_id).razorpay_payment_id
               = calls[c].payment_data.razorpay_payment_id

\* Two verify_payment calls of one payload, valid, whose updates have both
\* been applied to the order they name.
BothVerified(c, d) ==
    /\ c # d
    /\ calls[c].op = "verify_payment" /\ calls[c].pc = "return"
    /\ calls[d].op = "verify_payment" /\ calls[d].pc = "return"
    /\ calls[c].payment_data = calls[d].payment_data
    /\ calls[c].verified
    /\ calls[c].matched /\ calls[d].matched

\* C24: of two concurrent verify_payment calls of the same valid payload
\* for an order, each update leaves the order as a single call leaves it
\* (paid, confirmed, the payload's payment reference, nothing else
\* changed), the one applied second changes nothing, and both calls answer
\* success.
C24_ConcurrentVerificationsAgree ==
    [][\A c \in 1..MaxRaceCalls :
          /\ (/\ VerifyUpdating(c)
              /\ calls[c].verified
              /\ Exists(calls[c].payment_data.order_id)
              /\ verify_payment_update(c))
             => LET p == calls[c].payment_data
                    i == FindOne(orders, p.order_id)
                IN  /\ OthersSame(orders, orders', i)
                    /\ orders'[i] =
                         [orders[i] EXCEPT
                             !.payment_status = "paid",
                             !.order_status = "confirmed",
                             !.razorpay_payment_id = p.razorpay_payment_id]
                    /\ (\E d \in 1..MaxRaceCalls :
                           /\ d # c
                           /\ calls[d].op = "verify_payment"
                           /\ calls[d].pc = "return"
                           /\ calls[d].payment_data = p
                           /\ calls[d].matched
                           /\ orders[i].payment_status = "paid"
                           /\ orders[i].order_status = "confirmed"
                           /\ orders[i].razorpay_payment_id
                                  = p.razorpay_payment_id)
                       => orders' = orders
          /\ (/\ calls[c].op = "verify_payment"
              /\ calls[c].pc = "return"
              /\ calls[c].verified
              /\ verify_payment_return(c))
             => resp'.code = 200 /\ orders' = orders]_vars

C24_Witness ==
    \E c, d \in DOMAIN calls :
        /\ BothVerified(c, d)
        /\ OrderOf(calls[c].payment_data.order_id).payment_method = "razorpay"
        /\ OrderOf(calls[c].payment_data.order_id).payment_status = "paid"

\* C25: a create_razorpay_order, verify_payment, confirm_cod_order,
\* confirm_upi_payment or update_order_status, whatever it answers, leaves
\* every order other than the one its order_id names as it is.
C25_OnlyTheNamedOrderChanges ==
    [][/\ resp'.op \in {"create_razorpay_order", "verify_payment",
                        "confirm_cod_order", "confirm_upi_payment",
                        "update_order_status"}
          => OthersSame(orders, orders', FindOne(orders, resp'.order_id))
       /\ \A c \in DOMAIN calls :
            /\ (calls[c].op = "create_razorpay_order"
                    /\ calls'[c] # calls[c])
               => OthersSame(orders, orders',
                             FindOne(orders, calls[c].order_id))
            /\ (calls[c] = Idle /\ calls'[c] # Idle) => orders' = orders]_vars

\* A verification has failed for an order that has been through a provider
\* transaction, next to an order still as it was created.
C25_Witness ==
    /\ Len(orders) = 2
    /\ resp.op = "verify_payment" /\ resp.code = 400
    /\ resp.order_id = orders[1].id
    /\ orders[1].payment_status = "failed"
    /\ orders[1].razorpay_order_id # None
    /\ orders[2] = NewOrder(orders[2].id, orders[2].items, "razorpay")

\* C26: no two orders of the store have the same id, and no step changes
\* the id of an order or removes one.
C26_OrderIdsUniqueAndFixed ==
    /\ [](\A i, j \in 1..Len(orders) :
             i # j => orders[i].id # orders[j].id)
    /\ [][\A i \in 1..Len(orders) :
            i <= Len(orders') /\ orders'[i].id = orders[i].id]_vars

C26_Witness ==
    /\ Len(orders) = 2
    /\ orders[1].id # orders[2].id
    /\ orders[1].order_status = "shipped"
    /\ orders[2].payment_status = "paid"

\* The provider has created an order of this reference.
Issued(ref) == \E n \in 1..issued : ProviderOrderRef(n) = ref

\* C28: a verify_payment answers success for an existing order, over a
\* provider order the provider did create, only when that provider order's
\* reference is the razorpay_order_id the order holds.
C28_VerifiedReferenceIsTheOrders ==
    [][resp'.op = "verify_payment" => \A p \in LedgerPayloads :
          (/\ Exists(p.order_id)
           /\ Issued(p.razorpay_order_id)
           /\ verify_payment(p)
           /\ OrderOf(p.order_id)'.payment_status = "paid")
          => OrderOf(p.order_id).razorpay_order_id
                 = p.razorpay_order_id]_vars

\* C29: when a create_razorpay_order answers with a provider reference for
\* an order, the order's razorpay_order_id is that reference.
C29_ReturnedReferenceIsStored ==
    (/\ resp.op = "create_razorpay_order"
     /\ resp.code = 200
     /\ Exists(resp.order_id))
    => OrderOf(resp.order_id).razorpay_order_id = resp.body.razorpay_order_id

\* C30: a confirm_upi_payment naming no order answers 404 and changes
\* nothing; naming an order it sets payment_status = paid, order_status =
\* confirmed and transaction_reference = the reference sent, whatever the
\* order's payment_status, order_status and payment_method, changes nothing
\* else, and answers success: it takes no credentials and no proof.
C30_UpiConfirmsUnconditionally ==
    [][resp'.op = "confirm_upi_payment" =>
          \A id \in OrderIds, t \in TransactionRefs :
              confirm_upi_payment(id, t)
              => IF ~Exists(id)
                 THEN resp'.code = 404 /\ orders' = orders
                 ELSE LET i == FindOne(orders, id)
                      IN  /\ OthersSame(orders, orders', i)
                          /\ orders'[i] =
                               [orders[i] EXCEPT
                                   !.payment_status = "paid",
                                   !.order_status = "confirmed",
                                   !.transaction_reference = t]
                          /\ resp'.code = 200]_vars

\* A cash-on-delivery order, shipped, confirmed as paid by UPI.
C30_Witness ==
    /\ resp.op = "confirm_upi_payment" /\ resp.code = 200
    /\ Exists(resp.order_id)
    /\ OrderOf(resp.order_id).payment_method = "cod"
    /\ OrderOf(resp.order_id).payment_status = "paid"
    /\ OrderOf(resp.order_id).order_status = "confirmed"
    /\ OrderOf(resp.order_id).transaction_reference = "utr1"
    /\ OrderOf(resp.order_id).razorpay_payment_id = None

====
